---- MODULE Spec2Model ----
(***************************************************************************)
(* Hybrid retrieval service: the batch ingestion pipeline                  *)
(* (src/pipeline/flow.py) that replaces the contents of the document,      *)
(* vector, graph and analytics stores, and the recommendation endpoint     *)
(* (src/api/main.py) that reads them behind a cache with a time-to-live.   *)
(***************************************************************************)
EXTENDS Integers, Sequences, FiniteSets, TLC

(* ---------------------------------------------------------------- bounds *)

\* Longest raw input list the extraction step may read.
MaxBatch == 2

\* Number of ingestion runs explored when the pipeline runs alone.
MaxRuns == 3

\* Number of ingestion runs explored beside the serving API.
MaxServedRuns == 2

\* Number of ingestion runs explored while the age of the cache entries is
\* kept.
MaxExpiryRuns == 1

\* Ingestion runs beside two requests that race (SpecRace).
MaxRaceRuns == 1

\* Number of times the API process is started.
MaxStarts == 1

\* Seconds by which the clock may advance in one step (besides a whole TTL).
TickStep == 150

(* ------------------------------------------------------------- constants *)

\* Time-to-live of a cache entry, in seconds (config.py).
RECOMMENDATION_CACHE_TTL_SECONDS == 300

\* Number of nearest entries asked of the vector store (search_similar_users).
k == 5

\* get_milvus_connection: connection attempts, and seconds slept after an
\* attempt that found the server not ready.
retries == 10
wait_time == 5

\* Python's None, and an optional value x that is not None.
None == <<>>
Some(x) == <<x>>

NULL == "null"

(* ------------------------------------------------------------- raw input *)

\* Fields the Conversation schema requires (src/db/schemas.py).
RequiredFields ==
    {"message_id", "user_id", "campaign_id", "timestamp", "intent", "message"}

\* The records the sample file is drawn from, in file order.  The fifth lacks
\* campaign_id and fails validation; the message of the sixth embeds to an
\* empty vector.
SampleRecords ==
    << [message_id |-> "m1", user_id |-> "A", campaign_id |-> "X",
        timestamp |-> "t1", intent |-> "buy", message |-> "hello"],
       [message_id |-> "m2", user_id |-> "A", campaign_id |-> "X",
        timestamp |-> "t2", intent |-> "buy", message |-> "hello"],
       [message_id |-> "m3", user_id |-> "B", campaign_id |-> "X",
        timestamp |-> "t1", intent |-> "ask", message |-> "world"],
       [message_id |-> "m4", user_id |-> "B", campaign_id |-> "Y",
        timestamp |-> "t1", intent |-> "ask", message |-> "world"],
       [message_id |-> "m5", user_id |-> "A", timestamp |-> "t1",
        intent |-> "buy", message |-> "hello"],
       [message_id |-> "m6", user_id |-> "B", campaign_id |-> "Y",
        timestamp |-> "t2", intent |-> "ask", message |-> "void"] >>

\* The i-th smallest element of a set of numbers.
Nth(S, i) == CHOOSE x \in S : Cardinality({y \in S : y < x}) = i - 1

\* The sample records at the positions S, in file order.
SubList(S) == [i \in 1..Cardinality(S) |-> SampleRecords[Nth(S, i)]]

\* The lists the input file may hold: any at most MaxBatch sample records.
Batches ==
    { SubList(S) :
        S \in {T \in SUBSET (1..Len(SampleRecords)) : Cardinality(T) <= MaxBatch} }

\* What open()/json.load() can meet at the fixed input path.
FileStates ==
    {[kind |-> "missing"], [kind |-> "garbled"]}
        \cup {[kind |-> "json", data |-> b] : b \in Batches}

\* The input files met while the API is serving requests: two users on two
\* campaigns; one user's valid record beside the other user's invalid one.
ServedFiles ==
    {[kind |-> "json", data |-> SubList(S)] : S \in {{2, 3, 4}, {4, 5}}}

(* ---------------------------------------------------- embedding provider *)

\* model.encode(text).tolist(): a deterministic text -> vector function.
Encode(message) ==
    CASE message = "hello" -> <<0, 0>>
      [] message = "world" -> <<3, 4>>
      [] OTHER -> <<>>

\* The user ids a request may name.
Users == {"A", "B"}

(* ------------------------------------------------------------ the stores *)

VARIABLES
    mongo,        \* document store: the list of conversation documents
    milvus,       \* vector store: the list of (message_id, user_id, embedding)
    neo_nodes,    \* graph store: set of nodes [label, key]
    neo_edges,    \* graph store: list of edges [type, from, to, timestamp]
    analytics,    \* analytics store: committed rows of user_analytics
    sqlite_tx,    \* the pipeline connection's uncommitted table, if any
    pc,           \* position of the ingestion run
    raw_data,     \* main_data_pipeline: raw_data
    data,         \* main_data_pipeline: transformed_data
    neo_i,        \* load_to_dbs: index of the graph loop
    runs,         \* number of ingestion runs started
    cleared,      \* stores this run has cleared so far
    inserted,     \* stores this run has filled so far
    pre,          \* the stores as the run found them
    failures,     \* number of runs that ended in an exception
    api_up,       \* the API has run its startup and serves requests
    starts,       \* number of times the API has been started
    redis,        \* cache store: key -> [value, ttl], or None when absent
    resp,         \* the last response of get_recommendations, with what
                  \* the call found
    cold,         \* per user: the answer to a call that found no cache
                  \* entry, kept while no ingestion step has followed it and
                  \* less than the TTL has passed
    entry_age,    \* per user: the seconds since the last redis.set under the
                  \* user's key, counted up to the TTL; None before the first
    after_expiry, \* the last request came when the TTL had passed since the
                  \* last redis.set under its user's key
    conn,         \* a call of get_milvus_connection followed step by step:
                  \* its position, the attempts made, the outcome of the
                  \* last one, what it raised, the collection it found and
                  \* the seconds it slept
    calls,        \* two requests followed stage by stage: for each its
                  \* position, its user, what its stages have found so far,
                  \* its answer, and where the pipeline and the API were
                  \* when it came and when it answered
    written       \* the cache writes of those requests, in order

pipe_vars == <<pc, raw_data, data, neo_i, runs, cleared, inserted, pre,
               failures, sqlite_tx>>
store_vars == <<mongo, milvus, neo_nodes, neo_edges, analytics>>
\* The history kept beside the cache, and only by the specifications that
\* need it.
history_vars == <<entry_age, after_expiry>>

\* What only the specifications that follow one call step by step change.
race_vars == <<calls, written>>
call_vars == <<conn, race_vars>>
api_vars == <<api_up, starts, redis, resp, history_vars, call_vars>>
NoCold == [u \in Users |-> None]
vars == <<mongo, milvus, neo_nodes, neo_edges, analytics, sqlite_tx, pc,
          raw_data, data, neo_i, runs, cleared, inserted, pre, failures,
          api_up, starts, redis, resp, cold, entry_age, after_expiry, conn,
          calls, written>>

Stores == [mongo |-> mongo, milvus |-> milvus, neo_nodes |-> neo_nodes,
           neo_edges |-> neo_edges, analytics |-> analytics]

(* ------------------------------------------------------- pure operations *)

\* extract_raw_data: the parsed list, or [] when the file is missing or is
\* not valid JSON.
extract_raw_data(file) ==
    IF file.kind = "json" THEN file.data ELSE <<>>

\* Conversation(**item): raises ValidationError when a required field is
\* missing.
Validates(item) == RequiredFields \subseteq DOMAIN item

\* transform_item without the anomaly check on the embedding.
transform_item_keeps_empty_embedding(valid_data, item) ==
    IF ~(RequiredFields \subseteq DOMAIN item)
      THEN valid_data
      ELSE Append(valid_data,
                  [f \in RequiredFields \cup {"embedding"} |->
                      IF f = "embedding" THEN Encode(item.message)
                                         ELSE item[f]])

\* One iteration of the loop of transform_and_validate.
transform_item(valid_data, item) ==
    IF ~Validates(item)
      THEN valid_data
      ELSE LET embedding == Encode(item.message)
           IN  IF Len(embedding) = 0
                 THEN valid_data
                 ELSE Append(valid_data,
                             [f \in RequiredFields \cup {"embedding"} |->
                                 IF f = "embedding" THEN embedding
                                                    ELSE item[f]])

RECURSIVE transform_loop(_, _, _)
transform_loop(items, i, valid_data) ==
    IF i > Len(items)
      THEN valid_data
      ELSE transform_loop(items, i + 1, transform_item(valid_data, items[i]))

transform_and_validate(items) == transform_loop(items, 1, <<>>)

\* model_dump() with nothing excluded.
model_dump_with_embedding(d) == d

\* d.model_dump(exclude={'embedding'})
model_dump_no_embedding(d) == [f \in RequiredFields |-> d[f]]

mongo_data(ds) == [i \in 1..Len(ds) |-> model_dump_no_embedding(ds[i])]

\* milvus_data, row by row.
milvus_data(ds) ==
    [i \in 1..Len(ds) |->
        [message_id |-> ds[i].message_id, user_id |-> ds[i].user_id,
         embedding |-> ds[i].embedding]]

\* MERGE of a node: created only when no such node exists.
merge_node(nodes, n) == IF n \in nodes THEN nodes ELSE nodes \cup {n}

\* MERGE of a relationship: created only when no relationship of that type
\* with that timestamp joins the two nodes.
merge_edge(edges, e) ==
    IF \E j \in 1..Len(edges) : edges[j] = e THEN edges ELSE Append(edges, e)

merge_nodes_of(nodes, d) ==
    merge_node(merge_node(merge_node(nodes,
        [label |-> "User", key |-> d.user_id]),
        [label |-> "Campaign", key |-> d.campaign_id]),
        [label |-> "Intent", key |-> d.intent])

merge_edges_of(edges, d) ==
    merge_edge(merge_edge(edges,
        [type |-> "PARTICIPATED_IN", from |-> d.user_id,
         to |-> d.campaign_id, timestamp |-> d.timestamp]),
        [type |-> "EXPRESSED", from |-> d.user_id,
         to |-> d.intent, timestamp |-> d.timestamp])

\* df.groupby(['user_id', 'campaign_id']).size()
analytics_df(ds) ==
    { [user_id |-> p[1], campaign_id |-> p[2],
       engagement_count |->
           Cardinality({i \in 1..Len(ds) :
               ds[i].user_id = p[1] /\ ds[i].campaign_id = p[2]})] :
      p \in {<<ds[i].user_id, ds[i].campaign_id>> : i \in 1..Len(ds)} }

\* PRIMARY KEY (user_id, campaign_id): an insert of an existing pair fails.
pk_conflict(table, rows) ==
    \E r \in table : \E s \in rows :
        r.user_id = s.user_id /\ r.campaign_id = s.campaign_id

(* ------------------------------------------------- retrieval operations *)

\* cache_key = f"rec:{user_id}"
cache_key(user_id) == <<"rec", user_id>>

CacheKeys == {cache_key(u) : u \in Users}

REASON == "Recommended based on users with similar interests."

\* json.dumps(final_recs): the text of a JSON array, never the empty string.
json_dumps(recs) ==
    <<"[">> \o [i \in 1..Len(recs) |->
                  <<recs[i].campaign_id, recs[i].ranking_score, recs[i].reason>>]
           \o <<"]">>

\* A cache reader that drops the reason of every item.
json_loads_without_reason(text) ==
    [i \in 1..(Len(text) - 2) |->
        [campaign_id |-> text[i + 1][1], ranking_score |-> text[i + 1][2]]]

\* json.loads(cached_result)
json_loads(text) ==
    [i \in 1..(Len(text) - 2) |->
        [campaign_id |-> text[i + 1][1], ranking_score |-> text[i + 1][2],
         reason |-> text[i + 1][3]]]

\* redis.get(cache_key): the stored text, or None.
redis_get(store, key) ==
    IF store[key] = None THEN None ELSE Some(store[key][1].value)

\* "if cached_result:" is false for None and for the empty string.
Truthy(text) == text # None /\ Len(text[1]) > 0

\* redis.set(cache_key, text, ex=ttl)
redis_set(store, key, text, ttl) ==
    [store EXCEPT ![key] = Some([value |-> text, ttl |-> ttl])]

\* mongo.conversations.find_one({"user_id": user_id}): the first match.
find_one(docs, user_id) ==
    IF \E i \in 1..Len(docs) : docs[i].user_id = user_id
      THEN Some(docs[CHOOSE i \in 1..Len(docs) :
                       /\ docs[i].user_id = user_id
                       /\ \A j \in 1..(i - 1) : docs[j].user_id # user_id])
      ELSE None

\* A lookup that forgets the user_id filter and takes any first document.
get_user_query_vector_of_anyone(docs, user_id) ==
    IF Len(docs) = 0 THEN None ELSE Some(Encode(docs[1].message))

\* get_user_query_vector: None when the user has no document, else the
\* embedding of the message found.
get_user_query_vector(docs, user_id) ==
    LET recent_message == find_one(docs, user_id)
    IN  IF recent_message = None THEN None
        ELSE Some(Encode(recent_message[1].message))

\* Squared L2 distance of two vectors of the same dimension.
RECURSIVE L2(_, _)
L2(v, w) ==
    IF Len(v) = 0 THEN 0
    ELSE (v[1] - w[1]) * (v[1] - w[1]) + L2(Tail(v), Tail(w))

\* The positions of the n smallest distances, ties in insertion order.
nearest(distance, n) ==
    { i \in DOMAIN distance :
        Cardinality({ j \in DOMAIN distance :
            \/ distance[j] < distance[i]
            \/ distance[j] = distance[i] /\ j < i }) < n }

\* milvus.search(..., limit=n): the positions of the n nearest entries by L2
\* distance to the query vector.
search_hits(collection, query_vector, n) ==
    nearest([i \in 1..Len(collection) |->
                L2(collection[i].embedding, query_vector)], n)

\* search_similar_users: the user ids of the top-k hits, as a set.
search_similar_users(collection, query_vector) ==
    { collection[i].user_id : i \in search_hits(collection, query_vector, k) }

\* A graph query that follows the EXPRESSED relationships instead.
fetch_campaigns_by_intent(nodes, edges, user_ids) ==
    { edges[i].to : i \in
        { j \in 1..Len(edges) :
            /\ edges[j].type = "EXPRESSED"
            /\ edges[j].from \in user_ids
            /\ [label |-> "User", key |-> edges[j].from] \in nodes
            /\ [label |-> "Campaign", key |-> edges[j].to] \in nodes } }

\* fetch_campaigns_for_users: the distinct campaigns a PARTICIPATED_IN
\* relationship joins to one of the users.
fetch_campaigns_for_users(nodes, edges, user_ids) ==
    { edges[i].to : i \in
        { j \in 1..Len(edges) :
            /\ edges[j].type = "PARTICIPATED_IN"
            /\ edges[j].from \in user_ids
            /\ [label |-> "User", key |-> edges[j].from] \in nodes
            /\ [label |-> "Campaign", key |-> edges[j].to] \in nodes } }

\* SUM(engagement_count) over a set of rows.
RECURSIVE sum_engagement(_)
sum_engagement(rows) ==
    IF rows = {} THEN 0
    ELSE LET r == CHOOSE x \in rows : TRUE
         IN  r.engagement_count + sum_engagement(rows \ {r})

total_engagement(table, campaign_id) ==
    sum_engagement({r \in table : r.campaign_id = campaign_id})

\* The order in which the analytics store lists campaigns of equal total.
CampaignOrder == <<"X", "Y">>

campaign_index(c) == CHOOSE i \in 1..Len(CampaignOrder) : CampaignOrder[i] = c

\* ORDER BY 2 ASC over the groups: the group of smallest total first.
RECURSIVE order_by_total_asc(_, _)
order_by_total_asc(table, groups) ==
    IF groups = {} THEN <<>>
    ELSE LET first == CHOOSE c \in groups : \A d \in groups :
                 \/ total_engagement(table, c) < total_engagement(table, d)
                 \/ /\ total_engagement(table, c) = total_engagement(table, d)
                    /\ campaign_index(c) <= campaign_index(d)
         IN  <<[campaign_id |-> first,
                ranking_score |-> total_engagement(table, first)]>>
               \o order_by_total_asc(table, groups \ {first})

\* ORDER BY 2 DESC over the groups: the group of greatest total first.
RECURSIVE order_by_total_desc(_, _)
order_by_total_desc(table, groups) ==
    IF groups = {} THEN <<>>
    ELSE LET first == CHOOSE c \in groups : \A d \in groups :
                 \/ total_engagement(table, c) > total_engagement(table, d)
                 \/ /\ total_engagement(table, c) = total_engagement(table, d)
                    /\ campaign_index(c) <= campaign_index(d)
         IN  <<[campaign_id |-> first,
                ranking_score |-> total_engagement(table, first)]>>
               \o order_by_total_desc(table, groups \ {first})

\* rank_campaigns_by_engagement: one row per campaign of the list that has
\* analytics rows, with the sum of their counts, greatest first.
rank_campaigns_by_engagement(table, campaign_ids) ==
    order_by_total_desc(table,
        {r.campaign_id : r \in {x \in table : x.campaign_id \in campaign_ids}})

\* final_recs: every ranked item with the fixed reason attached.
final_recs(ranked_campaigns) ==
    [i \in 1..Len(ranked_campaigns) |->
        [campaign_id |-> ranked_campaigns[i].campaign_id,
         ranking_score |-> ranked_campaigns[i].ranking_score,
         reason |-> REASON]]

NoResponse ==
    [user_id |-> NULL, retrieval_source |-> "none", recommendations |-> <<>>,
     present |-> FALSE, had_entry |-> FALSE, repeat |-> FALSE,
     warm |-> FALSE, same_list |-> FALSE,
     read_failed |-> FALSE, write_failed |-> FALSE]

(* ----------------------------------------------------------------- Init *)

\* The two requests followed stage by stage.
Slots == {1, 2}

\* A request that has not come.
NoCall ==
    [pc |-> "idle", user_id |-> NULL, query_vector |-> <<>>, similar |-> {},
     campaigns |-> {}, retrieval_source |-> "none", recommendations |-> <<>>,
     missed |-> FALSE, ranked |-> FALSE, began |-> <<>>, ended |-> <<>>]

\* No call of get_milvus_connection is being followed.
NoConn ==
    [pc |-> "idle", i |-> 0, last |-> "none", error |-> "none",
     found |-> <<>>, slept |-> 0]

\* The state before anything has run, for a given content of the vector
\* store's collection and a given call being followed.
InitWith(collection, connection) ==
    /\ mongo = <<>>
    /\ milvus = collection
    /\ neo_nodes = {}
    /\ neo_edges = <<>>
    /\ analytics = {}
    /\ sqlite_tx = None
    /\ pc = "idle"
    /\ raw_data = <<>>
    /\ data = <<>>
    /\ neo_i = 0
    /\ runs = 0
    /\ cleared = {}
    /\ inserted = {}
    /\ pre = [stores |-> Stores, prev_done |-> FALSE, prev_raw |-> <<>>]
    /\ failures = 0
    /\ api_up = FALSE
    /\ starts = 0
    /\ redis = [key \in CacheKeys |-> None]
    /\ resp = NoResponse
    /\ cold = NoCold
    /\ entry_age = [u \in Users |-> None]
    /\ after_expiry = FALSE
    /\ conn = connection
    /\ calls = [s \in Slots |-> NoCall]
    /\ written = <<>>

\* All stores empty, nothing running.
Init == InitWith(<<>>, NoConn)

(* ------------------------------------------------- the ingestion pipeline *)

Resting == pc \in {"idle", "done", "halted", "failed"}

\* main_data_pipeline, up to the first check: extract, and return when
\* nothing was read.
ExtractRawData(file) ==
    /\ Resting
    /\ runs' = runs + 1
    /\ raw_data' = extract_raw_data(file)
    /\ pc' = IF Len(raw_data') = 0 THEN "halted" ELSE "transform"
    /\ data' = <<>>
    /\ neo_i' = 0
    /\ cleared' = {}
    /\ inserted' = {}
    /\ pre' = [stores |-> Stores, prev_done |-> (pc = "done"),
               prev_raw |-> raw_data]
    /\ cold' = NoCold
    /\ UNCHANGED <<api_vars, store_vars, sqlite_tx, failures>>

\* main_data_pipeline: transform, and return when nothing survived.
TransformAndValidate ==
    /\ pc = "transform"
    /\ data' = transform_and_validate(raw_data)
    /\ pc' = IF Len(data') = 0 THEN "halted" ELSE "connect"
    /\ cold' = NoCold
    /\ UNCHANGED <<api_vars, store_vars, sqlite_tx, raw_data, neo_i, runs, cleared,
                   inserted, pre, failures>>

\* get_milvus_connection, once connected: the collection is dropped when it
\* exists and created anew, empty.
get_milvus_connection(collection) == <<>>

\* load_to_dbs: acquiring the four clients.
GetClients ==
    /\ pc = "connect"
    /\ milvus' = get_milvus_connection(milvus)
    /\ cleared' = cleared \cup {"vector"}
    /\ pc' = "mongo_delete"
    /\ cold' = NoCold
    /\ UNCHANGED <<api_vars, mongo, neo_nodes, neo_edges, analytics, sqlite_tx,
                   raw_data, data, neo_i, runs, inserted, pre, failures>>

\* A document load that forgets to clear the collection.
MongoDeleteNothing ==
    /\ pc = "mongo_delete"
    /\ cleared' = cleared \cup {"document"}
    /\ pc' = "mongo_insert"
    /\ cold' = NoCold
    /\ UNCHANGED <<api_vars, store_vars, sqlite_tx, raw_data, data, neo_i,
                   runs, inserted, pre, failures>>

\* mongo.conversations.delete_many({})
MongoDelete ==
    /\ pc = "mongo_delete"
    /\ mongo' = <<>>
    /\ cleared' = cleared \cup {"document"}
    /\ pc' = "mongo_insert"
    /\ cold' = NoCold
    /\ UNCHANGED <<api_vars, milvus, neo_nodes, neo_edges, analytics, sqlite_tx,
                   raw_data, data, neo_i, runs, inserted, pre, failures>>

\* A load that goes from the documents straight to the graph.
MongoInsertThenGraph ==
    /\ pc = "mongo_insert"
    /\ mongo' = mongo \o mongo_data(data)
    /\ inserted' = inserted \cup {"document"}
    /\ pc' = "neo_clear"
    /\ cold' = NoCold
    /\ UNCHANGED <<api_vars, milvus, neo_nodes, neo_edges, analytics,
                   sqlite_tx, raw_data, data, neo_i, runs, cleared, pre,
                   failures>>

\* mongo.conversations.insert_many(mongo_data)
MongoInsert ==
    /\ pc = "mongo_insert"
    /\ mongo' = mongo \o mongo_data(data)
    /\ inserted' = inserted \cup {"document"}
    /\ pc' = "milvus_insert"
    /\ cold' = NoCold
    /\ UNCHANGED <<api_vars, milvus, neo_nodes, neo_edges, analytics, sqlite_tx,
                   raw_data, data, neo_i, runs, cleared, pre, failures>>

\* milvus.insert(milvus_data); milvus.flush()
MilvusInsert ==
    /\ pc = "milvus_insert"
    /\ milvus' = milvus \o milvus_data(data)
    /\ inserted' = inserted \cup {"vector"}
    /\ pc' = "neo_clear"
    /\ cold' = NoCold
    /\ UNCHANGED <<api_vars, mongo, neo_nodes, neo_edges, analytics, sqlite_tx,
                   raw_data, data, neo_i, runs, cleared, pre, failures>>

\* A graph load that forgets to delete the old graph.
NeoClearNothing ==
    /\ pc = "neo_clear"
    /\ cleared' = cleared \cup {"graph"}
    /\ neo_i' = 1
    /\ pc' = "neo_merge"
    /\ cold' = NoCold
    /\ UNCHANGED <<api_vars, store_vars, sqlite_tx, raw_data, data, runs,
                   inserted, pre, failures>>

\* session.run("MATCH (n) DETACH DELETE n")
NeoClear ==
    /\ pc = "neo_clear"
    /\ neo_nodes' = {}
    /\ neo_edges' = <<>>
    /\ cleared' = cleared \cup {"graph"}
    /\ neo_i' = 1
    /\ pc' = "neo_merge"
    /\ cold' = NoCold
    /\ UNCHANGED <<api_vars, mongo, milvus, analytics, sqlite_tx, raw_data, data,
                   runs, inserted, pre, failures>>

\* One iteration of "for d in data": the five MERGE clauses for a record.
NeoMerge ==
    /\ pc = "neo_merge"
    /\ neo_i <= Len(data)
    /\ neo_nodes' = merge_nodes_of(neo_nodes, data[neo_i])
    /\ neo_edges' = merge_edges_of(neo_edges, data[neo_i])
    /\ neo_i' = neo_i + 1
    /\ IF neo_i = Len(data)
         THEN /\ pc' = "sqlite_delete"
              /\ inserted' = inserted \cup {"graph"}
         ELSE UNCHANGED <<pc, inserted>>
    /\ cold' = NoCold
    /\ UNCHANGED <<api_vars, mongo, milvus, analytics, sqlite_tx, raw_data, data,
                   runs, cleared, pre, failures>>

\* An analytics load whose transaction keeps the old rows.
SqliteDeleteNothing ==
    /\ pc = "sqlite_delete"
    /\ sqlite_tx' = Some(analytics)
    /\ cleared' = cleared \cup {"analytics"}
    /\ pc' = "sqlite_insert"
    /\ cold' = NoCold
    /\ UNCHANGED <<api_vars, store_vars, raw_data, data, neo_i, runs,
                   inserted, pre, failures>>

\* sqlite_conn.execute("DELETE FROM user_analytics"): opens a transaction on
\* the pipeline's connection; other connections still read the committed rows.
SqliteDelete ==
    /\ pc = "sqlite_delete"
    /\ sqlite_tx' = Some({})
    /\ cleared' = cleared \cup {"analytics"}
    /\ pc' = "sqlite_insert"
    /\ cold' = NoCold
    /\ UNCHANGED <<api_vars, store_vars, raw_data, data, neo_i, runs, inserted, pre,
                   failures>>

\* analytics_df.to_sql(..., if_exists='append'); commit(); close()
SqliteInsert ==
    /\ pc = "sqlite_insert"
    /\ ~pk_conflict(sqlite_tx[1], analytics_df(data))
    /\ analytics' = sqlite_tx[1] \cup analytics_df(data)
    /\ sqlite_tx' = None
    /\ inserted' = inserted \cup {"analytics"}
    /\ pc' = "done"
    /\ cold' = NoCold
    /\ UNCHANGED <<api_vars, mongo, milvus, neo_nodes, neo_edges, raw_data, data,
                   neo_i, runs, cleared, pre, failures>>

Loading == pc \in {"connect", "mongo_delete", "mongo_insert", "milvus_insert",
                   "neo_clear", "neo_merge", "sqlite_delete", "sqlite_insert"}

\* Any store call of load_to_dbs may raise: nothing catches it, the run ends
\* where it stands, and an open analytics transaction is rolled back.
LoadFails ==
    /\ Loading
    /\ pc' = "failed"
    /\ sqlite_tx' = None
    /\ failures' = failures + 1
    /\ cold' = NoCold
    /\ UNCHANGED <<api_vars, store_vars, raw_data, data, neo_i, runs, cleared, inserted,
                   pre>>

load_to_dbs ==
    \/ GetClients
    \/ MongoDelete
    \/ MongoInsert
    \/ MilvusInsert
    \/ NeoClear
    \/ NeoMerge
    \/ SqliteDelete
    \/ SqliteInsert
    \/ LoadFails

main_data_pipeline(files, limit) ==
    \/ \E file \in files : runs < limit /\ ExtractRawData(file)
    \/ TransformAndValidate
    \/ load_to_dbs

NextPipe == main_data_pipeline(FileStates, MaxRuns)

SpecPipe == Init /\ [][NextPipe]_vars

(* ---------------------------------------------------------------- the API *)

\* lifespan, startup: the clients are acquired, and acquiring the vector
\* store's drops and recreates its collection.
ApiStartup ==
    /\ ~api_up
    /\ starts < MaxStarts
    /\ api_up' = TRUE
    /\ starts' = starts + 1
    /\ milvus' = get_milvus_connection(milvus)
    /\ UNCHANGED <<mongo, neo_nodes, neo_edges, analytics, pipe_vars, redis,
                   resp, cold, history_vars, call_vars>>

\* lifespan, shutdown.
ApiShutdown ==
    /\ api_up
    /\ api_up' = FALSE
    /\ UNCHANGED <<store_vars, pipe_vars, starts, redis, resp, cold,
                   history_vars, call_vars>>

\* A last stage that lets the exception of redis.set reach the caller.
cache_and_return_raising(store, user_id, recs, write_fails) ==
    IF write_fails
      THEN <<"error", <<>>, store>>
      ELSE <<"computed", recs,
             redis_set(store, cache_key(user_id), json_dumps(recs),
                       RECOMMENDATION_CACHE_TTL_SECONDS)>>

\* get_recommendations from "4. Cache & Return": the ranked list is annotated,
\* written to the cache unless redis.set raises, and returned.
cache_and_return(store, user_id, recs, write_fails) ==
    <<"computed", recs,
      IF write_fails THEN store
      ELSE redis_set(store, cache_key(user_id), json_dumps(recs),
                     RECOMMENDATION_CACHE_TTL_SECONDS)>>

\* A rank stage that signals not-found when no campaign was found.
rank_stage_not_found(store, user_id, campaign_ids, write_fails) ==
    IF campaign_ids = {}
      THEN <<"not_found", <<>>, store>>
      ELSE cache_and_return(store, user_id,
               final_recs(rank_campaigns_by_engagement(analytics, campaign_ids)),
               write_fails)

\* get_recommendations from "(c) SQLite Analytical Rank".
rank_stage(store, user_id, campaign_ids, write_fails) ==
    IF campaign_ids = {}
      THEN <<"computed", <<>>, store>>
      ELSE cache_and_return(store, user_id,
               final_recs(rank_campaigns_by_engagement(analytics, campaign_ids)),
               write_fails)

\* A graph stage that signals not-found when no similar user was found.
graph_stage_not_found(store, user_id, similar_user_ids, write_fails) ==
    IF similar_user_ids = {}
      THEN <<"not_found", <<>>, store>>
      ELSE rank_stage(store, user_id,
               fetch_campaigns_for_users(neo_nodes, neo_edges, similar_user_ids),
               write_fails)

\* get_recommendations from "(b) Neo4j Graph Search".
graph_stage(store, user_id, similar_user_ids, write_fails) ==
    IF similar_user_ids = {}
      THEN <<"computed", <<>>, store>>
      ELSE rank_stage(store, user_id,
               fetch_campaigns_for_users(neo_nodes, neo_edges, similar_user_ids),
               write_fails)

\* A vector stage that caches an empty list for the user it does not find.
vector_stage_caches_not_found(store, user_id, query_vector, write_fails) ==
    IF query_vector = None \/ Len(query_vector[1]) = 0
      THEN <<"not_found", <<>>,
             redis_set(store, cache_key(user_id), json_dumps(<<>>),
                       RECOMMENDATION_CACHE_TTL_SECONDS)>>
      ELSE graph_stage(store, user_id,
               search_similar_users(milvus, query_vector[1]), write_fails)

\* get_recommendations from "2. Get Query Vector".
vector_stage(store, user_id, query_vector, write_fails) ==
    IF query_vector = None \/ Len(query_vector[1]) = 0
      THEN <<"not_found", <<>>, store>>
      ELSE graph_stage(store, user_id,
               search_similar_users(milvus, query_vector[1]), write_fails)

\* A cache check that writes the entry it found back, with a fresh
\* time-to-live.
cache_stage_refreshing(store, user_id, cached_result, write_fails) ==
    IF Truthy(cached_result)
      THEN <<"cache", json_loads(cached_result[1]),
             redis_set(store, cache_key(user_id), cached_result[1],
                       RECOMMENDATION_CACHE_TTL_SECONDS)>>
      ELSE vector_stage(store, user_id,
               get_user_query_vector(mongo, user_id), write_fails)

\* get_recommendations from "1. Check Cache", given what redis.get returned
\* (None also when it raised).
cache_stage(store, user_id, cached_result, write_fails) ==
    IF Truthy(cached_result)
      THEN <<"cache", json_loads(cached_result[1]), store>>
      ELSE vector_stage(store, user_id,
               get_user_query_vector(mongo, user_id), write_fails)

\* What get_recommendations answers and what it leaves in the cache, when the
\* cache holds `store`: <<retrieval_source, recommendations, cache>>.
\* read_fails / write_fails: redis.get / redis.set raises.
recommend(store, user_id, read_fails, write_fails) ==
    cache_stage(store, user_id,
        IF read_fails THEN None ELSE redis_get(store, cache_key(user_id)),
        write_fails)

\* GET /recommendations/{user_id}
get_recommendations(user_id, read_fails, write_fails) ==
    /\ api_up
    /\ \E r \in {recommend(redis, user_id, read_fails, write_fails)} :
         LET key == cache_key(user_id)
             first == cold[user_id]
         IN  /\ redis' = r[3]
             /\ resp' = [user_id |-> user_id,
                         retrieval_source |-> r[1],
                         recommendations |-> r[2],
                         present |-> find_one(mongo, user_id) # None,
                         had_entry |-> redis[key] # None,
                         repeat |-> first # None,
                         warm |-> /\ first # None
                                  /\ first[1].wrote
                                  /\ ~read_fails,
                         same_list |-> /\ first # None
                                       /\ first[1].recs = r[2],
                         read_failed |-> read_fails /\ redis[key] # None,
                         write_failed |-> write_fails /\ r[1] # "cache"]
             /\ cold' = [cold EXCEPT ![user_id] =
                    IF redis[key] = None /\ r[1] = "computed"
                      THEN Some([recs |-> r[2], age |-> 0,
                                 wrote |-> r[3][key] # None])
                      ELSE None]
    /\ UNCHANGED <<store_vars, pipe_vars, api_up, starts>>

\* A clock that keeps an entry through the last second of its time-to-live.
expire_late(store, seconds) ==
    [key \in DOMAIN store |->
        IF store[key] = None \/ store[key][1].ttl < seconds
          THEN None
          ELSE Some([store[key][1] EXCEPT !.ttl = @ - seconds])]

\* The cache store's clock: entries whose time-to-live has run out vanish.
expire(store, seconds) ==
    [key \in DOMAIN store |->
        IF store[key] = None \/ store[key][1].ttl <= seconds
          THEN None
          ELSE Some([store[key][1] EXCEPT !.ttl = @ - seconds])]

AdvanceTime(seconds) ==
    /\ \/ \E key \in CacheKeys : redis[key] # None
       \/ cold # NoCold
    /\ redis' = expire(redis, seconds)
    /\ cold' = [u \in Users |->
          IF cold[u] = None
               \/ cold[u][1].age + seconds >= RECOMMENDATION_CACHE_TTL_SECONDS
            THEN None
            ELSE Some([cold[u][1] EXCEPT !.age = @ + seconds])]
    /\ UNCHANGED <<store_vars, pipe_vars, api_up, starts, resp>>

Api ==
    \/ ApiStartup
    \/ ApiShutdown
    \/ \E u \in Users, rf \in BOOLEAN, wf \in BOOLEAN :
          get_recommendations(u, rf, wf)
              /\ UNCHANGED <<history_vars, call_vars>>

Clock ==
    \E seconds \in {TickStep, RECOMMENDATION_CACHE_TTL_SECONDS} :
        AdvanceTime(seconds) /\ UNCHANGED <<history_vars, call_vars>>

Next ==
    \/ main_data_pipeline(ServedFiles, MaxServedRuns)
    \/ Api
    \/ Clock

Spec == Init /\ [][Next]_vars

(* ---------------------------------------------- the age of cache entries *)

\* A request, with the time of the last redis.set under each key kept
\* beside the cache.
TimedRequest(user_id, read_fails, write_fails) ==
    /\ get_recommendations(user_id, read_fails, write_fails)
    /\ entry_age' =
          IF redis' # redis
            THEN [entry_age EXCEPT ![user_id] = Some(0)]
            ELSE entry_age
    /\ after_expiry' =
          /\ entry_age[user_id] # None
          /\ entry_age[user_id][1] >= RECOMMENDATION_CACHE_TTL_SECONDS
    /\ UNCHANGED call_vars

\* The clock, ageing what was written.
TimedTick(seconds) ==
    /\ AdvanceTime(seconds)
    /\ entry_age' = [u \in Users |->
          IF entry_age[u] = None THEN None
          ELSE IF entry_age[u][1] + seconds >= RECOMMENDATION_CACHE_TTL_SECONDS
            THEN Some(RECOMMENDATION_CACHE_TTL_SECONDS)
            ELSE Some(entry_age[u][1] + seconds)]
    /\ UNCHANGED <<after_expiry, call_vars>>

NextExpiry ==
    \/ main_data_pipeline(ServedFiles, MaxExpiryRuns)
    \/ ApiStartup
    \/ ApiShutdown
    \/ \E u \in Users, rf \in BOOLEAN, wf \in BOOLEAN : TimedRequest(u, rf, wf)
    \/ \E seconds \in {TickStep, RECOMMENDATION_CACHE_TTL_SECONDS} :
          TimedTick(seconds)

SpecExpiry == Init /\ [][NextExpiry]_vars

(* ------------------------------------------ two requests, stage by stage *)

\* Where the pipeline and the API are. Every step of either changes it, and
\* no value comes back.
Epoch == <<runs, pc, neo_i, failures, starts>>

\* The request returns or raises.
Answer(c, source, recs) ==
    [c EXCEPT !.pc = "done", !.retrieval_source = source,
              !.recommendations = recs, !.ended = Epoch]

\* A request for user_id comes in; the two followed are for the same user.
call_arrives(s, user_id) ==
    /\ api_up
    /\ calls[s].pc = "idle"
    /\ \A t \in Slots : calls[t].user_id \in {NULL, user_id}
    /\ calls' = [calls EXCEPT ![s] =
          [NoCall EXCEPT !.pc = "cache", !.user_id = user_id,
                         !.began = Epoch]]
    /\ UNCHANGED <<store_vars, pipe_vars, api_up, starts, redis, resp, cold,
                   history_vars, conn, written>>

\* "1. Check Cache"
call_checks_cache(s) ==
    /\ calls[s].pc = "cache"
    /\ \E cached_result \in {redis_get(redis, cache_key(calls[s].user_id))} :
         calls' = [calls EXCEPT ![s] =
           IF Truthy(cached_result)
             THEN Answer(@, "cache", json_loads(cached_result[1]))
             ELSE [@ EXCEPT !.pc = "vector", !.missed = TRUE]]
    /\ UNCHANGED <<store_vars, pipe_vars, api_up, starts, redis, resp, cold,
                   history_vars, conn, written>>

\* "2. Get Query Vector"
call_gets_query_vector(s) ==
    /\ calls[s].pc = "vector"
    /\ \E query_vector \in {get_user_query_vector(mongo, calls[s].user_id)} :
         calls' = [calls EXCEPT ![s] =
           IF query_vector = None \/ Len(query_vector[1]) = 0
             THEN Answer(@, "not_found", <<>>)
             ELSE [@ EXCEPT !.pc = "search",
                            !.query_vector = query_vector[1]]]
    /\ UNCHANGED <<store_vars, pipe_vars, api_up, starts, redis, resp, cold,
                   history_vars, conn, written>>

\* "(a) Milvus Vector Search"
call_searches(s) ==
    /\ calls[s].pc = "search"
    /\ \E similar_user_ids \in
            {search_similar_users(milvus, calls[s].query_vector)} :
         calls' = [calls EXCEPT ![s] =
           IF similar_user_ids = {}
             THEN Answer(@, "computed", <<>>)
             ELSE [@ EXCEPT !.pc = "graph", !.similar = similar_user_ids]]
    /\ UNCHANGED <<store_vars, pipe_vars, api_up, starts, redis, resp, cold,
                   history_vars, conn, written>>

\* "(b) Neo4j Graph Search"
call_fetches_campaigns(s) ==
    /\ calls[s].pc = "graph"
    /\ \E campaign_ids \in
            {fetch_campaigns_for_users(neo_nodes, neo_edges,
                                       calls[s].similar)} :
         calls' = [calls EXCEPT ![s] =
           IF campaign_ids = {}
             THEN Answer(@, "computed", <<>>)
             ELSE [@ EXCEPT !.pc = "rank", !.campaigns = campaign_ids]]
    /\ UNCHANGED <<store_vars, pipe_vars, api_up, starts, redis, resp, cold,
                   history_vars, conn, written>>

\* "(c) SQLite Analytical Rank" and the annotation of the ranked list.
call_ranks(s) ==
    /\ calls[s].pc = "rank"
    /\ calls' = [calls EXCEPT ![s] =
          [@ EXCEPT !.pc = "write", !.ranked = TRUE,
                    !.recommendations = final_recs(
                        rank_campaigns_by_engagement(analytics,
                            calls[s].campaigns))]]
    /\ UNCHANGED <<store_vars, pipe_vars, api_up, starts, redis, resp, cold,
                   history_vars, conn, written>>

\* A cache write that leaves an entry it finds in place.
call_writes_if_absent(s) ==
    /\ calls[s].pc = "write"
    /\ \E key \in {cache_key(calls[s].user_id)} :
         \E text \in {json_dumps(calls[s].recommendations)} :
           IF redis[key] = None
             THEN /\ redis' = redis_set(redis, key, text,
                                        RECOMMENDATION_CACHE_TTL_SECONDS)
                  /\ written' = Append(written, [slot |-> s, value |-> text])
             ELSE UNCHANGED <<redis, written>>
    /\ calls' = [calls EXCEPT ![s] =
          Answer(@, "computed", @.recommendations)]
    /\ UNCHANGED <<store_vars, pipe_vars, api_up, starts, resp, cold,
                   history_vars, conn>>

\* "4. Cache & Return"
call_writes(s) ==
    /\ calls[s].pc = "write"
    /\ \E key \in {cache_key(calls[s].user_id)} :
         \E text \in {json_dumps(calls[s].recommendations)} :
           /\ redis' = redis_set(redis, key, text,
                                 RECOMMENDATION_CACHE_TTL_SECONDS)
           /\ written' = Append(written, [slot |-> s, value |-> text])
    /\ calls' = [calls EXCEPT ![s] =
          Answer(@, "computed", @.recommendations)]
    /\ UNCHANGED <<store_vars, pipe_vars, api_up, starts, resp, cold,
                   history_vars, conn>>

\* The pipeline, the API's start and two requests for one user, whose
\* stages interleave with each other and with the load.
NextRace ==
    \/ main_data_pipeline(ServedFiles, MaxRaceRuns)
    \/ ApiStartup
    \/ \E s \in Slots : \E user_id \in Users : call_arrives(s, user_id)
    \/ \E s \in Slots : call_checks_cache(s)
    \/ \E s \in Slots : call_gets_query_vector(s)
    \/ \E s \in Slots : call_searches(s)
    \/ \E s \in Slots : call_fetches_campaigns(s)
    \/ \E s \in Slots : call_ranks(s)
    \/ \E s \in Slots : call_writes(s)

SpecRace == Init /\ [][NextRace]_vars

(* ------------------------------------------- get_milvus_connection, step
   by step *)

\* What connections.connect may do: return, raise a MilvusException that
\* says the server is not ready ("server unavailable", "connecting"), raise
\* another MilvusException, or raise something else.
ConnectOutcomes == {"ok", "not_ready", "fatal", "other"}

\* The collections the call may find at the server: none or an empty one,
\* or what a load of some batch left.
CollectionsFound == {milvus_data(transform_and_validate(b)) : b \in Batches}

\* The call has just been made.
Calling(collection) ==
    [pc |-> "attempt", i |-> 0, last |-> "none", error |-> "none",
     found |-> collection, slept |-> 0]

\* A pass that sleeps and tries again whatever the attempt raised.
connect_attempt_retrying_all(outcome) ==
    /\ conn.pc = "attempt"
    /\ conn.i < retries
    /\ conn' = [conn EXCEPT
          !.i = @ + 1,
          !.last = outcome,
          !.pc = IF outcome = "ok" THEN "connected" ELSE "sleep"]
    /\ UNCHANGED <<store_vars, pipe_vars, api_up, starts, redis, resp, cold,
                   history_vars, race_vars>>

\* One pass through the try block of the loop.
connect_attempt(outcome) ==
    /\ conn.pc = "attempt"
    /\ conn.i < retries
    /\ conn' = [conn EXCEPT
          !.i = @ + 1,
          !.last = outcome,
          !.pc = CASE outcome = "ok" -> "connected"
                   [] outcome = "not_ready" -> "sleep"
                   [] OTHER -> "raised",
          !.error = CASE outcome = "fatal" -> "MilvusException"
                      [] outcome = "other" -> "Exception"
                      [] OTHER -> @]
    /\ UNCHANGED <<store_vars, pipe_vars, api_up, starts, redis, resp, cold,
                   history_vars, race_vars>>

\* time.sleep(wait_time), then the next pass.
sleep_and_retry ==
    /\ conn.pc = "sleep"
    /\ conn' = [conn EXCEPT !.pc = "attempt", !.slept = @ + wait_time]
    /\ UNCHANGED <<store_vars, pipe_vars, api_up, starts, redis, resp, cold,
                   history_vars, race_vars>>

\* The else branch of the for loop: every pass has failed.
raise_connection_error ==
    /\ conn.pc = "attempt"
    /\ conn.i >= retries
    /\ conn' = [conn EXCEPT !.pc = "raised", !.error = "ConnectionError"]
    /\ UNCHANGED <<store_vars, pipe_vars, api_up, starts, redis, resp, cold,
                   history_vars, race_vars>>

\* "Schema setup": the collection is dropped if it exists, created, indexed
\* and loaded, and returned.
schema_setup ==
    /\ conn.pc = "connected"
    /\ milvus' = get_milvus_connection(milvus)
    /\ conn' = [conn EXCEPT !.pc = "ready"]
    /\ UNCHANGED <<mongo, neo_nodes, neo_edges, analytics, pipe_vars, api_up,
                   starts, redis, resp, cold, history_vars, race_vars>>

InitConn == \E collection \in CollectionsFound :
    InitWith(collection, Calling(collection))

NextConn ==
    \/ \E outcome \in ConnectOutcomes : connect_attempt(outcome)
    \/ sleep_and_retry
    \/ raise_connection_error
    \/ schema_setup

\* The call runs on: a pass that can be taken is taken.
SpecConn == InitConn /\ [][NextConn]_vars /\ WF_vars(NextConn)

(* ------------------------------------------------------------ properties *)

\* A raw record survives validate+transform: it has the required fields and
\* its message embeds to a non-empty vector.
Survives(item) ==
    /\ RequiredFields \subseteq DOMAIN item
    /\ Encode(item.message) # <<>>

Survivors(items) == SelectSeq(items, Survives)

\* The documents, vector entries, graph and aggregate rows that a list of
\* surviving records projects to.
DocumentsOf(S) ==
    [i \in 1..Len(S) |->
        [message_id |-> S[i].message_id, user_id |-> S[i].user_id,
         campaign_id |-> S[i].campaign_id, timestamp |-> S[i].timestamp,
         intent |-> S[i].intent, message |-> S[i].message]]

VectorsOf(S) ==
    [i \in 1..Len(S) |->
        [message_id |-> S[i].message_id, user_id |-> S[i].user_id,
         embedding |-> Encode(S[i].message)]]

NodesOf(S) ==
    UNION { { [label |-> "User", key |-> S[i].user_id],
              [label |-> "Campaign", key |-> S[i].campaign_id],
              [label |-> "Intent", key |-> S[i].intent] } : i \in 1..Len(S) }

EdgesOf(S) ==
    UNION { { [type |-> "PARTICIPATED_IN", from |-> S[i].user_id,
               to |-> S[i].campaign_id, timestamp |-> S[i].timestamp],
              [type |-> "EXPRESSED", from |-> S[i].user_id,
               to |-> S[i].intent, timestamp |-> S[i].timestamp] } :
            i \in 1..Len(S) }

PairCount(S, u, c) ==
    Cardinality({i \in 1..Len(S) : S[i].user_id = u /\ S[i].campaign_id = c})

AggregatesOf(S) ==
    { [user_id |-> u, campaign_id |-> c, engagement_count |-> PairCount(S, u, c)] :
        <<u, c>> \in { p \in {<<S[i].user_id, S[i].campaign_id>> : i \in 1..Len(S)} :
                         PairCount(S, p[1], p[2]) > 0 } }

GraphHolds(S) ==
    /\ neo_nodes = NodesOf(S)
    /\ {neo_edges[i] : i \in 1..Len(neo_edges)} = EdgesOf(S)
    /\ Cardinality(EdgesOf(S)) = Len(neo_edges)

AllStores == {"document", "vector", "graph", "analytics"}

\* C1, as claimed: a request for a user with no document always signals
\* not-found, whatever the cache holds.
C1_AbsentUserAlwaysNotFound ==
    (resp.user_id # NULL /\ ~resp.present)
        => resp.retrieval_source = "not_found"

\* C1, amended: a request for a user with no document never answers
\* "computed"; it signals not-found unless a live cache entry for the user is
\* served, and only such an entry can make it answer "cache".
C1_AbsentUserNeverComputed ==
    (resp.user_id # NULL /\ ~resp.present)
        => /\ resp.retrieval_source # "computed"
           /\ ~resp.had_entry => resp.retrieval_source = "not_found"
           /\ resp.retrieval_source = "cache" => resp.had_entry

C1_Witness ==
    /\ resp.user_id = "A"
    /\ ~resp.present
    /\ ~resp.had_entry
    /\ resp.retrieval_source = "not_found"
    /\ mongo # <<>>

\* C2, as claimed: a call that follows, within the TTL and with no ingestion
\* step in between, a call that found no cache entry and answered
\* "computed", answers "cache" with the same list.
C2_SecondCallAlwaysCached ==
    resp.repeat => resp.retrieval_source = "cache" /\ resp.same_list

\* C2, amended: when the first call also went through ranking and wrote its
\* list to the cache, and the second call's cache read does not fail, the
\* second call answers "cache" with the list the first call returned.
C2_SecondCallCachedAfterWrite ==
    resp.warm => resp.retrieval_source = "cache" /\ resp.same_list

C2_Witness ==
    /\ resp.warm
    /\ resp.present
    /\ resp.retrieval_source = "cache"
    /\ Len(resp.recommendations) = 2

\* C3: a request for a user who has a document and no cache entry answers
\* "computed".
C3_PresentUserColdCacheComputed ==
    (resp.user_id # NULL /\ resp.present /\ ~resp.had_entry)
        => resp.retrieval_source = "computed"

C3_Witness ==
    /\ resp.present
    /\ ~resp.had_entry
    /\ resp.retrieval_source = "computed"
    /\ Len(resp.recommendations) > 0

\* C4: no step of the API (startup, shutdown, request) changes the document,
\* vector, graph or analytics store, and no step of the pipeline changes the
\* cache.
C4_OnlyThePipelineWritesTheStores ==
    [][ /\ (ApiStartup \/ ApiShutdown
              \/ \E u \in Users, rf \in BOOLEAN, wf \in BOOLEAN :
                    get_recommendations(u, rf, wf))
           => UNCHANGED store_vars
        /\ main_data_pipeline(ServedFiles, MaxServedRuns) => UNCHANGED redis
      ]_vars

\* C5, as claimed: a store is cleared only once the store before it in the
\* order document, vector, graph, analytics has been filled.
C5_ClearedOnlyAfterPreviousInsert ==
    /\ "vector" \in cleared => "document" \in inserted
    /\ "graph" \in cleared => "vector" \in inserted
    /\ "analytics" \in cleared => "graph" \in inserted

\* C5, amended: the stores are filled in the order document, vector, graph,
\* analytics; the document, graph and analytics stores are each cleared
\* right before their own insert, after the store before them was filled;
\* the vector store is cleared first of all, when its connection is acquired.
C5_LoadOrder ==
    /\ inserted \subseteq cleared
    /\ "document" \in cleared => "vector" \in cleared
    /\ "vector" \in inserted => "document" \in inserted
    /\ "graph" \in cleared => "vector" \in inserted
    /\ "analytics" \in cleared => "graph" \in inserted
    /\ "vector" \in cleared /\ "vector" \notin inserted => milvus = <<>>
    /\ "document" \in cleared /\ "document" \notin inserted => mongo = <<>>
    /\ pc = "done" <=> inserted = AllStores

C5_Witness ==
    /\ cleared = {"vector"}
    /\ inserted = {}
    /\ mongo # <<>>
    /\ milvus = <<>>

\* C6: when extraction yields nothing, or nothing survives validate+transform,
\* the run halts and the four stores are as the run found them.
C6_EmptyRunHaltsWithoutMutation ==
    (runs > 0 /\ Survivors(raw_data) = <<>>)
        => /\ pc \in {"transform", "halted"}
           /\ Len(raw_data) = 0 => pc = "halted"
           /\ Stores = pre.stores

C6_Witness ==
    /\ pc = "halted"
    /\ Len(raw_data) > 0
    /\ mongo # <<>>
    /\ analytics # {}

\* C7: a completed run on the input of the completed run right before it
\* leaves each of the four stores as that run left it.
C7_RerunIsIdempotent ==
    (pc = "done" /\ pre.prev_done /\ pre.prev_raw = raw_data)
        => Stores = pre.stores

C7_Witness ==
    /\ pc = "done"
    /\ runs = 3
    /\ pre.prev_done
    /\ pre.prev_raw = raw_data
    /\ Len(mongo) = 2

\* C8: a failed load keeps what it has written beside what it has not
\* reached, and a completed run leaves in every store exactly the projection
\* of its own surviving records.
C8_CompletedRunReplacesEverything ==
    /\ (pc = "failed" /\ "document" \in inserted)
          => /\ mongo = DocumentsOf(Survivors(raw_data))
             /\ analytics = pre.stores.analytics
    /\ pc = "done"
          => /\ mongo = DocumentsOf(Survivors(raw_data))
             /\ milvus = VectorsOf(Survivors(raw_data))
             /\ GraphHolds(Survivors(raw_data))
             /\ analytics = AggregatesOf(Survivors(raw_data))

C8_Witness ==
    /\ pc = "done"
    /\ failures > 0
    /\ pre.stores.mongo # <<>>
    /\ pre.stores.mongo # mongo
    /\ pre.stores.analytics = {}

\* C9: after a completed run the document store holds one document, without
\* the embedding, per surviving record, the vector store one entry per
\* surviving record, and neither holds a dropped record.
C9_DocumentsAndVectorsMatchSurvivors ==
    pc = "done" =>
        LET S == Survivors(raw_data)
            dropped == {raw_data[i].message_id : i \in
                          {j \in 1..Len(raw_data) : ~Survives(raw_data[j])}}
        IN  /\ Len(mongo) = Len(S)
            /\ Len(milvus) = Len(S)
            /\ \A i \in 1..Len(S) :
                  /\ DOMAIN mongo[i] = RequiredFields
                  /\ \A f \in RequiredFields : mongo[i][f] = S[i][f]
                  /\ milvus[i] = [message_id |-> S[i].message_id,
                                  user_id |-> S[i].user_id,
                                  embedding |-> Encode(S[i].message)]
            /\ \A i \in 1..Len(mongo) : mongo[i].message_id \notin dropped
            /\ \A i \in 1..Len(milvus) : milvus[i].message_id \notin dropped

C9_Witness ==
    /\ pc = "done"
    /\ Len(raw_data) = 2
    /\ Len(mongo) = 1
    /\ Len(milvus) = 1
    /\ pre.stores.mongo # <<>>

\* C10: after a completed run the analytics store has, for every (user,
\* campaign) pair, a row exactly when a surviving record has that pair, and
\* the row counts the surviving records with the pair.
C10_AnalyticsCountsPairs ==
    pc = "done" =>
        /\ \A r \in analytics :
              /\ r.engagement_count > 0
              /\ r.engagement_count =
                    PairCount(Survivors(raw_data), r.user_id, r.campaign_id)
        /\ \A r1 \in analytics : \A r2 \in analytics :
              (r1.user_id = r2.user_id /\ r1.campaign_id = r2.campaign_id)
                  => r1 = r2
        /\ \A i \in 1..Len(raw_data) :
              Survives(raw_data[i]) =>
                  \E r \in analytics :
                      /\ r.user_id = raw_data[i].user_id
                      /\ r.campaign_id = raw_data[i].campaign_id

C10_Witness ==
    /\ pc = "done"
    /\ pre.stores.analytics # {}
    /\ analytics =
          {[user_id |-> "A", campaign_id |-> "X", engagement_count |-> 2]}
    /\ \E r \in pre.stores.analytics : r.user_id = "B"

(* ------------------------------------------- properties of one request *)

\* A cache without entries, reads and writes of which succeed.
EmptyCache == [key \in CacheKeys |-> None]

\* The request for user_id reaches the stages behind the cache check: the
\* read raised or found nothing to return.
Misses(user_id, read_fails) ==
    read_fails \/ ~Truthy(redis_get(redis, cache_key(user_id)))

\* The similar users and candidate campaigns of a request for a user who has
\* a document, computed from the stores as they are.
SimilarUsersOf(user_id) ==
    search_similar_users(milvus, get_user_query_vector(mongo, user_id)[1])

CandidatesOf(user_id) ==
    fetch_campaigns_for_users(neo_nodes, neo_edges, SimilarUsersOf(user_id))

\* The request for user_id ends at the 404, or on one of the two empty
\* paths.
EndsBeforeRanking(user_id) ==
    \/ find_one(mongo, user_id) = None
    \/ \E similar \in {SimilarUsersOf(user_id)} :
          \/ similar = {}
          \/ fetch_campaigns_for_users(neo_nodes, neo_edges, similar) = {}

\* The step is a request: get_recommendations with the user and the cache
\* failures its response records.
RequestStep ==
    /\ api_up
    /\ api_up'
    /\ pc' = pc
    /\ resp'.user_id \in Users
    /\ get_recommendations(resp'.user_id, resp'.read_failed, resp'.write_failed)

\* C11: a request whose cache read raises, or whose cache write raises,
\* answers what the same request answers on an empty, working cache, and
\* never fails.
C11_CacheFailureAnswersAsEmptyCache ==
    [][ ((resp'.read_failed \/ resp'.write_failed) /\ RequestStep)
          => \A clean \in {recommend(EmptyCache, resp'.user_id, FALSE, FALSE)} :
                 /\ resp'.retrieval_source = clean[1]
                 /\ resp'.recommendations = clean[2]
                 /\ resp'.retrieval_source \in {"computed", "not_found"}
      ]_vars

C11_Witness ==
    /\ resp.user_id = "B"
    /\ resp.read_failed
    /\ resp.write_failed
    /\ resp.retrieval_source = "computed"
    /\ Len(resp.recommendations) = 2

\* C12: a request that misses the cache, for a user who has a document,
\* answers an empty list with source "computed" when the similarity search
\* finds no user or the graph search finds no campaign.
C12_EmptyPathsAnswerEmptyComputed ==
    [][ (/\ resp'.user_id \in Users
         /\ Misses(resp'.user_id, resp'.read_failed)
         /\ find_one(mongo, resp'.user_id) # None
         /\ EndsBeforeRanking(resp'.user_id)
         /\ RequestStep)
          => /\ resp'.retrieval_source = "computed"
             /\ resp'.recommendations = <<>>
      ]_vars

C12_Witness ==
    /\ resp.present
    /\ ~resp.had_entry
    /\ resp.retrieval_source = "computed"
    /\ resp.recommendations = <<>>
    /\ milvus # <<>>
    /\ neo_edges = <<>>

\* C13: a computed answer lists no campaign twice, lists only campaigns a
\* PARTICIPATED_IN relationship joins to a similar user, scores each with
\* the sum of engagement_count over the analytics rows of the campaign, and
\* is ordered by score, greatest first.
C13_ComputedListIsRanked ==
    [][ (resp'.retrieval_source = "computed" /\ RequestStep)
          => \A similar \in {SimilarUsersOf(resp'.user_id)} :
             LET recs == resp'.recommendations
             IN  /\ \A i \in 1..Len(recs) : \A j \in 1..Len(recs) :
                       /\ i # j => recs[i].campaign_id # recs[j].campaign_id
                       /\ i < j => recs[i].ranking_score >= recs[j].ranking_score
                 /\ \A i \in 1..Len(recs) :
                       /\ \E e \in 1..Len(neo_edges) :
                             /\ neo_edges[e].type = "PARTICIPATED_IN"
                             /\ neo_edges[e].from \in similar
                             /\ neo_edges[e].to = recs[i].campaign_id
                       /\ recs[i].ranking_score =
                             sum_engagement({r \in analytics :
                                 r.campaign_id = recs[i].campaign_id})
                       /\ recs[i].ranking_score > 0
      ]_vars

C13_Witness ==
    /\ resp.retrieval_source = "computed"
    /\ Len(resp.recommendations) = 2
    /\ resp.recommendations[1].ranking_score
          > resp.recommendations[2].ranking_score

\* C14: a request made when the TTL has passed since the last write under the
\* user's key does not answer "cache"; it answers what a request on an empty
\* cache computes from the stores as they are ("computed" or the 404).
C14_ExpiredEntryIsRecomputed ==
    [][ (/\ resp'.user_id \in Users
         /\ entry_age[resp'.user_id] # None
         /\ entry_age[resp'.user_id][1] >= RECOMMENDATION_CACHE_TTL_SECONDS
         /\ RequestStep)
          => \A clean \in {recommend(EmptyCache, resp'.user_id, FALSE, FALSE)} :
                 /\ resp'.retrieval_source \in {"computed", "not_found"}
                 /\ resp'.retrieval_source = clean[1]
                 /\ resp'.recommendations = clean[2]
      ]_vars

C14_Witness ==
    /\ resp.user_id = "A"
    /\ after_expiry
    /\ resp.retrieval_source = "computed"
    /\ Len(resp.recommendations) = 2
    /\ entry_age["A"] = Some(0)

\* C16: once the graph is loaded, at most one relationship of a type joins a
\* user to a campaign (PARTICIPATED_IN) or to an intent (EXPRESSED), however
\* many records share the pair.
C16_OneEdgePerPair ==
    "graph" \in inserted =>
        \A i \in 1..Len(neo_edges) : \A j \in 1..Len(neo_edges) :
            (/\ neo_edges[i].type = neo_edges[j].type
             /\ neo_edges[i].from = neo_edges[j].from
             /\ neo_edges[i].to = neo_edges[j].to) => i = j

\* C17: a request that finds a cache entry answers the entry's list with
\* source "cache", and leaves the entry, its remaining time-to-live, the
\* rest of the cache and the four stores as they were.
C17_CacheHitChangesNothing ==
    [][ (/\ resp'.user_id \in Users
         /\ redis[cache_key(resp'.user_id)] # None
         /\ ~resp'.read_failed
         /\ RequestStep)
          => /\ resp'.retrieval_source = "cache"
             /\ resp'.recommendations =
                   json_loads(redis[cache_key(resp'.user_id)][1].value)
             /\ redis' = redis
             /\ UNCHANGED store_vars
      ]_vars

C17_Witness ==
    /\ resp.user_id = "B"
    /\ resp.had_entry
    /\ resp.retrieval_source = "cache"
    /\ redis[cache_key("B")] # None
    /\ redis[cache_key("B")][1].ttl = RECOMMENDATION_CACHE_TTL_SECONDS - TickStep

\* C18: a request that ends at the 404 or on an empty path leaves the cache
\* as it was, so that a user without an entry still has none; a request
\* changes the cache only by writing, after ranking, the list it answers
\* under the user's key with the full time-to-live.
C18_CacheWrittenOnlyAfterRanking ==
    [][ RequestStep
          => \A u \in {resp'.user_id} : \A early \in {EndsBeforeRanking(u)} :
                 /\ (Misses(u, resp'.read_failed) /\ early) => redis' = redis
                 /\ redis' # redis
                      => /\ Misses(u, resp'.read_failed)
                         /\ ~early
                         /\ resp'.retrieval_source = "computed"
                         /\ redis' = [redis EXCEPT ![cache_key(u)] =
                                Some([value |-> json_dumps(resp'.recommendations),
                                      ttl |-> RECOMMENDATION_CACHE_TTL_SECONDS])]
      ]_vars

C18_Witness ==
    /\ resp.user_id = "B"
    /\ resp.present
    /\ resp.retrieval_source = "computed"
    /\ resp.recommendations = <<>>
    /\ redis[cache_key("B")] = None
    /\ milvus = <<>>
    /\ mongo # <<>>

\* The four stores hold what the completed run loaded, untouched since.
StoresAsLoaded ==
    /\ pc = "done"
    /\ mongo = DocumentsOf(Survivors(raw_data))
    /\ milvus = VectorsOf(Survivors(raw_data))
    /\ GraphHolds(Survivors(raw_data))
    /\ analytics = AggregatesOf(Survivors(raw_data))

\* C19, as claimed: with the stores as a completed run loaded them, a
\* request that misses the cache, for any user of a record of the input
\* batch, answers "computed" with a non-empty list.
C19_EveryBatchUserGetsRecommendations ==
    [][ (/\ pc = "done"
         /\ \E i \in 1..Len(raw_data) : raw_data[i].user_id = resp'.user_id
         /\ Misses(resp'.user_id, resp'.read_failed)
         /\ StoresAsLoaded
         /\ RequestStep)
          => /\ resp'.retrieval_source = "computed"
             /\ Len(resp'.recommendations) > 0
      ]_vars

\* C19, amended: with the stores as a completed run loaded them, a request
\* that misses the cache, for any user of a record that survived validation
\* and transformation, finds a similar user and a candidate campaign and
\* answers "computed" with a non-empty list.
C19_EverySurvivingUserGetsRecommendations ==
    [][ (/\ pc = "done"
         /\ \E i \in 1..Len(raw_data) :
               raw_data[i].user_id = resp'.user_id /\ Survives(raw_data[i])
         /\ Misses(resp'.user_id, resp'.read_failed)
         /\ StoresAsLoaded
         /\ RequestStep)
          => /\ SimilarUsersOf(resp'.user_id) # {}
             /\ CandidatesOf(resp'.user_id) # {}
             /\ resp'.retrieval_source = "computed"
             /\ Len(resp'.recommendations) > 0
      ]_vars

C19_Witness ==
    /\ StoresAsLoaded
    /\ resp.user_id = "B"
    /\ resp.present
    /\ ~resp.had_entry
    /\ resp.retrieval_source = "computed"
    /\ Len(resp.recommendations) = 1
    /\ Len(raw_data) = 2

\* Both followed requests have answered and both missed the cache: with the
\* cache working, the one that checked later did so before the other wrote.
BothMissed ==
    \A s \in Slots : calls[s].pc = "done" /\ calls[s].missed

\* No step of the pipeline or of the API's start fell between the coming of
\* the earlier request and the answer of the later one.
Undisturbed ==
    \A s, t \in Slots :
        calls[s].began = calls[t].began /\ calls[s].began = calls[t].ended

\* The cache entry of the requests' user is what was written last.
LastWriteStands ==
    Len(written) > 0 =>
        redis[cache_key(calls[1].user_id)] =
            Some([value |-> written[Len(written)].value,
                  ttl |-> RECOMMENDATION_CACHE_TTL_SECONDS])

C20_ConnectionLoopTerminates ==
    /\ [](/\ conn.i <= retries
          /\ conn.slept <= wait_time * retries
          /\ conn.pc = "sleep" => conn.last = "not_ready"
          /\ (conn.pc = "attempt" /\ conn.i > 0) => conn.last = "not_ready"
          /\ conn.last \in {"fatal", "other"}
                => conn.pc = "raised" /\ conn.error # "ConnectionError"
          /\ conn.error = "ConnectionError"
                => /\ conn.pc = "raised"
                   /\ conn.i = retries
                   /\ conn.last = "not_ready"
                   /\ conn.slept = wait_time * retries
          /\ conn.pc \in {"connected", "ready"} => conn.last = "ok"
          /\ conn.pc # "ready" => milvus = conn.found
          /\ conn.pc = "ready" => milvus = <<>>)
    /\ <>(conn.pc \in {"ready", "raised"})

C20_Witness ==
    /\ conn.pc = "ready"
    /\ conn.i = retries
    /\ conn.slept = wait_time * (retries - 1)
    /\ Len(conn.found) = 2
    /\ milvus = <<>>

====
